---- MODULE Spec2Model ----
(***************************************************************************)
(* A model of the noorlib pipeline.                                        *)
(*                                                                         *)
(*   parser.js     discovers the page files, orders them by (volume,       *)
(*                 section, page), walks every fragment of every page and  *)
(*                 folds the quotation elements into hadithsById; runs a   *)
(*                 fallback pass when that map stayed empty; writes        *)
(*                 hadiths.json.                                           *)
(*   translate.js  (src/unnamed/part_000) reads hadiths.json, translates   *)
(*                 title and content of every record not yet in            *)
(*                 hadiths_translated.json, rewriting that file after      *)
(*                 every record.                                           *)
(*                                                                         *)
(* Texts are sequences of characters, so that trim, concatenation and the  *)
(* fallback pattern are computed and not assumed.  Path components are     *)
(* digit strings, so that Number() is a conversion.                        *)
(***************************************************************************)
EXTENDS Integers, Sequences, FiniteSets, TLC

\* ------------------------------------------------------------------ bounds

\* Paths in the list getFilePaths returns.
MaxFiles == 3
\* Fragments in one page's paragList.
MaxParags == 2
\* Heading and quotation elements in one fragment's markup.
MaxElems == 2
\* Quotation elements in the whole corpus.
MaxQuotes == 3

\* ------------------------------------------------------------------- texts

\* String.prototype.trim: leading and trailing white space removed.
RECURSIVE TrimLeft(_)
TrimLeft(t) ==
  IF t = <<>> THEN <<>>
  ELSE IF Head(t) = " " THEN TrimLeft(Tail(t)) ELSE t

RECURSIVE TrimRight(_)
TrimRight(t) ==
  IF t = <<>> THEN <<>>
  ELSE IF t[Len(t)] = " " THEN TrimRight(SubSeq(t, 1, Len(t) - 1)) ELSE t

Trim(t) == TrimRight(TrimLeft(t))

\* 'Untitled', the initial value of currentTitle.
Untitled == <<"U">>

\* ------------------------------------------------------------------- paths

\* Number() of a string of decimal digits.
RECURSIVE ToNumber(_)
ToNumber(ds) ==
  IF ds = <<>> THEN 0
  ELSE 10 * ToNumber(SubSeq(ds, 1, Len(ds) - 1)) + ds[Len(ds)]

\* A discovered .json path: .../volume_<V>/section_<S>/page_<P>.json with
\* its three digit strings, or a .json file of another name (kind "other").
NoDigits == <<>>
PagePath(v, s, p) == [kind |-> "page", vol |-> v, sec |-> s, page |-> p]
PagePaths ==
  { PagePath(<<2>>, <<1>>, <<1, 2>>),
    PagePath(<<2>>, <<1>>, <<3>>),
    PagePath(<<2>>, <<2>>, <<3>>),
    PagePath(<<1, 0>>, <<1>>, <<3>>) }
OtherPaths == { [kind |-> "other", vol |-> NoDigits, sec |-> NoDigits, page |-> NoDigits] }
AllPaths == PagePaths \cup OtherPaths

\* filePath.match(/volume_(\d+)\/section_(\d+)\/page_(\d+)\.json$/)
Matches(p) == p.kind = "page"

\* const [, volume, section, page] = match.map(Number)
Volume(p) == ToNumber(p.vol)
Section(p) == ToNumber(p.sec)
Page(p) == ToNumber(p.page)

\* Lists without repetition of at most n elements of S: what a recursive
\* directory listing can return.
RECURSIVE ListsOf(_, _)
ListsOf(S, n) ==
  IF n = 0 THEN { <<>> }
  ELSE LET shorter == ListsOf(S, n - 1)
       IN shorter \cup
          { l \in { Append(m, x) : m \in { k \in shorter : Len(k) = n - 1 },
                                    x \in S } :
              \A i \in 1..(Len(l) - 1) : l[i] # l[Len(l)] }

NoRepeat(l) == \A i, j \in 1..Len(l) : l[i] = l[j] => i = j

\* ----------------------------------------------------------------- sorting

\* The keys of an object whose keys are the numbers in S, after
\* .sort((a, b) => Number(a) - Number(b)): ascending.
RECURSIVE SortedKeys(_)
SortedKeys(S) ==
  IF S = {} THEN <<>>
  ELSE LET m == CHOOSE x \in S : \A y \in S : x <= y
       IN <<m>> \o SortedKeys(S \ {m})

\* Array.prototype.sort with (a, b) => a.page - b.page: stable, ascending by
\* page number.  Insert puts x behind every element that is not greater.
\* A reading that puts every file last.
InsertByPageLast(sorted, x) == Append(sorted, x)

RECURSIVE InsertByPage(_, _)
InsertByPage(sorted, x) ==
  IF sorted = <<>> THEN <<x>>
  ELSE IF Page(Head(sorted)) <= Page(x)
       THEN <<Head(sorted)>> \o InsertByPage(Tail(sorted), x)
       ELSE <<x>> \o sorted

\* A reading that leaves the files of a section as they were found.
SortByPageUnsorted(l) == l

RECURSIVE SortByPage(_)
SortByPage(l) ==
  IF l = <<>> THEN <<>>
  ELSE InsertByPage(SortByPage(SubSeq(l, 1, Len(l) - 1)), l[Len(l)])

\* groupedFiles[volume][section]: the matching paths of that volume and
\* section, in the order of filePaths (reduce pushes them in that order).
Group(paths, v, s) ==
  SelectSeq(paths, LAMBDA p : Matches(p) /\ Volume(p) = v /\ Section(p) = s)

GroupVolumes(paths) ==
  { Volume(paths[i]) : i \in { j \in 1..Len(paths) : Matches(paths[j]) } }

GroupSections(paths, v) ==
  { Section(paths[i]) :
      i \in { j \in 1..Len(paths) : Matches(paths[j]) /\ Volume(paths[j]) = v } }

RECURSIVE ConcatAll(_)
ConcatAll(ls) ==
  IF ls = <<>> THEN <<>> ELSE Head(ls) \o ConcatAll(Tail(ls))

SectionsOfVolume(paths, v) ==
  LET secs == SortedKeys(GroupSections(paths, v))
  IN ConcatAll([k \in 1..Len(secs) |-> SortByPage(Group(paths, v, secs[k]))])

\* sortedPaths as main builds it from filePaths.
SortPaths(paths) ==
  LET vols == SortedKeys(GroupVolumes(paths))
  IN ConcatAll([k \in 1..Len(vols) |-> SectionsOfVolume(paths, vols[k])])

\* ------------------------------------------------------------------ markup

\* The texts that occur in the markup.  A heading's text, a quotation's body
\* (its text without the sanadHadith and lfootnote sub-elements) and its
\* sanadHadith sub-element with the maasoom inside it.
HeadingTexts == { <<"H">>, <<" ">> }
BodyTexts == { <<>>, <<"a">>, <<"a", " ">>, <<"b">> }
NoSanad == [sanad |-> <<>>, ghael |-> <<>>]
SanadTexts == { NoSanad, [sanad |-> <<" ", "g", "s">>, ghael |-> <<"g">>] }

\* The revayatindex attribute: a value, or "" when the element has none (the
\* code tests !revayatIndex, which an empty attribute satisfies as well).
NoIndex == ""
IndexAttrs == { "5" }

\* The id attribute of the enclosing p; a missing one reads as undefined and
\* is spelled "undefined" by the template literal.
NoParaId == "undefined"
ParaIds == { "p1", NoParaId }

\* The heading and quotation elements over given texts and attributes.
HeadingElems(headings) ==
  [tag : {"heading"}, text : headings, idx : {NoIndex}, sanad : {NoSanad}]
HadithElems(bodies, idxs, sanads) ==
  [tag : {"hadith"}, text : bodies, idx : idxs, sanad : sanads]

RECURSIVE SeqsUpTo(_, _)
SeqsUpTo(S, n) ==
  IF n = 0 THEN { <<>> }
  ELSE LET shorter == SeqsUpTo(S, n - 1)
       IN shorter \cup
          { Append(l, x) : l \in { m \in shorter : Len(m) = n - 1 },
                           x \in S }

\* The entries of paragList (parag.text parsed) over given elements: the id
\* of the fragment's p and its elements in document order.
FragmentsOf(pids, elems) == [pid : pids, elems : SeqsUpTo(elems, MaxElems)]

NumQuotes(frag) == Len(SelectSeq(frag.elems, LAMBDA e : e.tag = "hadith"))

\* A reading that takes the first heading only.
HeadingTextFirst(frag) ==
  LET hs == SelectSeq(frag.elems, LAMBDA e : e.tag = "heading")
  IN IF hs = <<>> THEN <<>> ELSE hs[1].text

\* $('heading').text(): the texts of all heading elements, concatenated.
HeadingText(frag) ==
  ConcatAll([k \in 1..Len(frag.elems) |->
               IF frag.elems[k].tag = "heading" THEN frag.elems[k].text
               ELSE <<>>])

\* currentTitle after the fragment's heading has been looked at.
TitleAfter(title, frag) ==
  LET heading == Trim(HeadingText(frag))
  IN IF heading # <<>> THEN heading ELSE title

\* -------------------------------------------------------------- identities

NoPath == [kind |-> "none", vol |-> NoDigits, sec |-> NoDigits, page |-> NoDigits]

\* An identity: the explicit index, `gen_${filePath}_${paragraphId}`, or
\* `fallback_${parag.paragraphId}`.
ExplicitId(idx) == [kind |-> "idx", key |-> idx, path |-> NoPath]
GenId(path, pid) == [kind |-> "gen", key |-> pid, path |-> path]
FallbackId(paragraphId) == [kind |-> "fallback", key |-> paragraphId, path |-> NoPath]


RevayatIndex(el, path, pid) ==
  IF el.idx # NoIndex THEN ExplicitId(el.idx) ELSE GenId(path, pid)

\* ------------------------------------------------------------------- merge

Includes(l, x) == \E i \in 1..Len(l) : l[i] = x

\* A reading that gives the record the title of the later occurrence.
MergeHadithRetitle(existing, page, content, title) ==
  [existing EXCEPT
     !.pages = IF Includes(@, page) THEN @ ELSE Append(@, page),
     !.parts = IF content # <<>> /\ ~Includes(@, content)
               THEN Append(@, content) ELSE @,
     !.title = title]

\* A reading that pushes without looking.
MergeHadithNoDedup(existing, page, content, title) ==
  [existing EXCEPT
     !.pages = Append(@, page),
     !.parts = IF content # <<>> THEN Append(@, content) ELSE @]

\* The existing record after a later occurrence on `page` with body
\* `content`: pages and parts pushed when not included yet.
MergeHadith(existing, page, content, title) ==
  [existing EXCEPT
     !.pages = IF Includes(@, page) THEN @ ELSE Append(@, page),
     !.parts = IF content # <<>> /\ ~Includes(@, content)
               THEN Append(@, content) ELSE @]

\* The record created at the first occurrence of an identity.
NewHadith(id, path, page, title, el, content) ==
  [vol |-> Volume(path), sec |-> Section(path), pages |-> <<page>>, id |-> id,
   title |-> title, ghael |-> Trim(el.sanad.ghael), sanad |-> Trim(el.sanad.sanad),
   parts |-> IF content # <<>> THEN <<content>> ELSE <<>>]

\* What the traversal has met so far, kept beside the program's state to
\* state the claims.  Per identity: the pages and the non-empty bodies of
\* its occurrences, the number of paragraphs that gave it as a synthesized
\* identity (counted to 2), the text of the last heading element before the
\* occurrence that created its record, the heading text of the last fragment
\* with a heading up to that occurrence's own, and whether a later occurrence
\* differed from the record in volume, section, title, sanad or ghael.
NewSeen(page, content, el, elemHead, fragmentHead) ==
  [pages |-> {page},
   bodies |-> IF content # <<>> THEN {content} ELSE {},
   paras |-> IF el.idx = NoIndex THEN 1 ELSE 0,
   elemHead |-> elemHead,
   fragHead |-> fragmentHead,
   differed |-> FALSE]

MoreSeen(old, rec, path, page, title, content, el, newPara) ==
  [old EXCEPT
     !.pages = @ \cup {page},
     !.bodies = IF content # <<>> THEN @ \cup {content} ELSE @,
     !.paras = IF el.idx = NoIndex /\ newPara /\ @ < 2 THEN @ + 1 ELSE @,
     !.differed = @ \/ rec.vol # Volume(path) \/ rec.sec # Section(path)
                    \/ rec.title # title
                    \/ rec.sanad # Trim(el.sanad.sanad)
                    \/ rec.ghael # Trim(el.sanad.ghael)]

\* One run of the .each callback (a quotation element), or a heading element
\* passed by.  acc = [h, order, seen, prevHead, here]: the map, the order of
\* its keys, and beside them what was seen, the last heading element's text
\* and the identities this fragment has given already; fh is the heading text
\* of the last fragment with a heading.
ApplyElem(acc, el, path, pid, title, fh) ==
  IF el.tag = "heading"
  THEN [acc EXCEPT !.prevHead = Trim(el.text)]
  ELSE LET id == RevayatIndex(el, path, pid)
           page == Page(path)
           hadithContent == Trim(el.text)
       IN IF id \in DOMAIN acc.h
          THEN [acc EXCEPT
                  !.h[id] = MergeHadith(@, page, hadithContent, title),
                  !.seen[id] = MoreSeen(@, acc.h[id], path, page, title,
                                        hadithContent, el, id \notin acc.here),
                  !.here = @ \cup {id}]
          ELSE [acc EXCEPT
                  !.h = @ @@ (id :> NewHadith(id, path, page, title, el, hadithContent)),
                  !.order = Append(@, id),
                  !.seen = @ @@ (id :> NewSeen(page, hadithContent, el, acc.prevHead, fh)),
                  !.here = @ \cup {id}]

RECURSIVE ApplyElems(_, _, _, _, _, _)
ApplyElems(acc, elems, path, pid, title, fh) ==
  IF elems = <<>> THEN acc
  ELSE ApplyElems(ApplyElem(acc, Head(elems), path, pid, title, fh),
                  Tail(elems), path, pid, title, fh)

\* ---------------------------------------------------------------- fallback

\* The plain text of a fragment's p element, in characters; "F" stands for
\* the reporting verb with its opening guillemet (" فرمود: «") and "Q" for
\* the closing guillemet.
FallbackTexts ==
  { <<"x">>,
    <<"x", "F", "y", "Q">>,
    <<" ", "z", "F", " ", "y", "Q", "x">>,
    <<"x", "F", "y", "Q", "F", "z", "Q">> }

\* parag.paragraphId, the fragment's identifier in the page's JSON.
ParagraphIds == { "p1", "p2" }

FallbackParags == [paragraphId : ParagraphIds, text : FallbackTexts]

\* text.match(/(.+) فرمود: «(.+)»/): both groups greedy, so the first group
\* ends at the last verb that a non-empty quotation and a closing guillemet
\* follow, and the second at the last closing guillemet.
VerbPositions(t) ==
  { i \in 2..Len(t) :
      t[i] = "F" /\ \E j \in (i + 2)..Len(t) : t[j] = "Q" }

HadithMatches(t) == VerbPositions(t) # {}

Max(S) == CHOOSE x \in S : \A y \in S : y <= x
Min(S) == CHOOSE x \in S : \A y \in S : x <= y

MatchGhael(t) == SubSeq(t, 1, Max(VerbPositions(t)) - 1)

MatchContent(t) ==
  LET i == Max(VerbPositions(t))
      j == Max({ k \in (i + 2)..Len(t) : t[k] = "Q" })
  IN SubSeq(t, i + 1, j - 1)

\* A reading that gives the records of the second pass no title.
FallbackHadithUntitled(id, path, title, text) ==
  [vol |-> Volume(path), sec |-> Section(path), pages |-> <<Page(path)>>,
   id |-> id, title |-> Untitled, ghael |-> Trim(MatchGhael(text)), sanad |-> <<>>,
   parts |-> <<Trim(MatchContent(text))>>]

\* The record the fallback pass creates for a matching paragraph.
FallbackHadith(id, path, title, text) ==
  [vol |-> Volume(path), sec |-> Section(path), pages |-> <<Page(path)>>,
   id |-> id, title |-> title, ghael |-> Trim(MatchGhael(text)), sanad |-> <<>>,
   parts |-> <<Trim(MatchContent(text))>>]

\* ------------------------------------------------------------------ output

\* parts.join('\n')
RECURSIVE Join(_)
Join(parts) ==
  IF parts = <<>> THEN <<>>
  ELSE IF Len(parts) = 1 THEN parts[1]
  ELSE parts[1] \o <<"\n">> \o Join(Tail(parts))

\* The number an index attribute spells: a key that spells an array index is
\* enumerated before every other key of an object, in ascending order.
AttrNumber(a) == IF a = "5" THEN 5 ELSE 12

IsIndexKey(id) == id.kind = "idx"

RECURSIVE SortedIndexKeys(_)
SortedIndexKeys(S) ==
  IF S = {} THEN <<>>
  ELSE LET m == CHOOSE x \in S : \A y \in S : AttrNumber(x.key) <= AttrNumber(y.key)
       IN <<m>> \o SortedIndexKeys(S \ {m})

\* Object.values(hadithsById): index keys first, then the others in the order
\* of their insertion.
ObjectKeys(h, order) ==
  SortedIndexKeys({ id \in DOMAIN h : IsIndexKey(id) })
    \o SelectSeq(order, LAMBDA id : ~IsIndexKey(id))

\* One record of hadiths.json: parts replaced by content.
Finalized(rec) ==
  [vol |-> rec.vol, sec |-> rec.sec, pages |-> rec.pages, id |-> rec.id,
   title |-> rec.title, ghael |-> rec.ghael, sanad |-> rec.sanad,
   content |-> Trim(Join(rec.parts))]

AllHadiths(h, order) ==
  LET keys == ObjectKeys(h, order)
  IN [k \in 1..Len(keys) |-> Finalized(h[keys[k]])]

\* ------------------------------------------------------------------- state

VARIABLES
  pc,            \* where main of parser.js stands
  filePaths,     \* what getFilePaths returned
  sortedPaths,   \* the processing order
  fileIdx,       \* the position of the for loop over sortedPaths
  paragIdx,      \* the position of the for loop over paragList (0: page not read)
  disk,          \* the pages read so far: path -> what the file holds
  currentTitle,  \* the title context
  hadithsById,   \* identity -> record
  keyOrder,      \* the identities in the order of their insertion
  output,        \* hadiths.json
  processed,     \* the pages read by the primary pass, in order
  seen,          \* per identity, what its occurrences were
  prevHead,      \* the text of the last heading element passed
  fragHead,      \* the heading text of the last fragment that had one
  primaryCount,  \* the records the primary pass ended with (-1: not ended)
  fbFirst,       \* fallback identity -> the record of its first paragraph
  fbDropped,     \* fallback identities a later matching paragraph repeated
  fbRan,         \* whether the fallback pass was started
  quotes         \* the quotation elements met so far

parserVars ==
  <<pc, filePaths, sortedPaths, fileIdx, paragIdx, disk, currentTitle,
    hadithsById, keyOrder, output, processed, seen, prevHead, fragHead,
    primaryCount, fbFirst, fbDropped, fbRan, quotes>>

VARIABLES
  tpc,                 \* where the driver stands
  run,                 \* the number of this invocation
  input,               \* hadiths.json on disk
  hadiths,             \* the parsed hadiths.json
  file,                \* hadiths_translated.json on disk
  translatedHadiths,   \* the list in memory
  translatedIds,       \* the identities loaded from the file
  hIdx,                \* the records the for loop has passed
  translatedTitle,     \* the result of translateText(hadith.title, true)
  attempt,             \* translateText's attempt counter
  currentApiKeyIndex,
  consecutiveErrors,
  fullCycleCompleted,
  titleCache,          \* source title -> translation
  resumeIds,           \* the identities the file held when this run started
  requested,           \* the identities this run asked the service about
  completed,           \* the identities whose two translations have returned
  completedBefore,     \* the same, when this run started
  titleAnswer,         \* title -> its first non-empty translation in this run
  titleRequests,       \* title -> requests made for it in this run (to 2)
  lateRequests,        \* titles asked for again after a non-empty translation
  withAnswer,          \* identities translated once their title had its answer
  titleUses,           \* title -> records of this run translated with it (to 2)
  apiKeys,             \* apiKeys.length: the keys GEMINI_API_KEY lists
  doTranslate,         \* the answer to the question, once it is given
  exitCode,            \* the exit code of the process, once it has ended
  lastRequest,         \* how the last request of this run ended
  wrapSeen,            \* whether a failure of this run led back to the first key
  exhausted            \* <<identity, field>>: its last translation ran out of attempts

tVars ==
  <<tpc, run, input, hadiths, file, translatedHadiths, translatedIds, hIdx,
    translatedTitle, attempt, currentApiKeyIndex, consecutiveErrors,
    fullCycleCompleted, titleCache, resumeIds, requested, completed,
    completedBefore, titleAnswer, titleRequests, lateRequests, withAnswer,
    titleUses, apiKeys, doTranslate, exitCode, lastRequest, wrapSeen,
    exhausted>>

Empty == <<>>
NoOutput == <<[vol |-> -1]>>

\* What a page file holds: text that JSON.parse or .data[0] rejects ("bad"),
\* a document without paragList ("skip"), or a paragList of n fragments.
PageShapes ==
  { [kind |-> "bad", n |-> 0], [kind |-> "skip", n |-> 0] }
    \cup [kind : {"list"}, n : 0..MaxParags]

ParserInit(paths) ==
  /\ pc = "start"
  /\ filePaths \in ListsOf(paths, MaxFiles)
  /\ sortedPaths = <<>>
  /\ fileIdx = 0
  /\ paragIdx = 0
  /\ disk = Empty
  /\ currentTitle = Untitled
  /\ hadithsById = Empty
  /\ keyOrder = <<>>
  /\ output = NoOutput
  /\ processed = <<>>
  /\ seen = Empty
  /\ prevHead = Untitled
  /\ fragHead = Untitled
  /\ primaryCount = -1
  /\ fbFirst = Empty
  /\ fbDropped = {}
  /\ quotes = 0
  /\ fbRan = FALSE

\* Lines 26-61: the paths are grouped and ordered; the primary pass starts.
OrderPaths ==
  /\ pc = "start"
  /\ sortedPaths' = SortPaths(filePaths)
  /\ fileIdx' = 1
  /\ paragIdx' = 0
  /\ pc' = "primary"
  /\ UNCHANGED <<filePaths, disk, currentTitle, hadithsById, keyOrder, output,
                 processed, seen, prevHead, fragHead, primaryCount, fbFirst,
                 fbDropped, quotes, fbRan>>
  /\ UNCHANGED tVars

\* The loop position after the fragment at paragIdx of a page of n fragments.
NextParag(n) == IF paragIdx < n THEN paragIdx + 1 ELSE 0
NextFile(n) == IF paragIdx < n THEN fileIdx ELSE fileIdx + 1

\* Lines 63-72: the next page is read and parsed.  A page that does not
\* parse rejects main's promise, and the catch handler exits with status 1.
ReadPage ==
  /\ pc = "primary"
  /\ fileIdx <= Len(sortedPaths)
  /\ paragIdx = 0
  /\ LET path == sortedPaths[fileIdx]
     IN \E shape \in PageShapes :
          /\ path \in DOMAIN disk => shape = disk[path]
          /\ disk' = IF path \in DOMAIN disk THEN disk ELSE disk @@ (path :> shape)
          /\ processed' = Append(processed, path)
          /\ IF shape.kind = "bad"
             THEN /\ pc' = "failed"
                  /\ UNCHANGED <<fileIdx, paragIdx>>
             ELSE /\ pc' = pc
                  /\ IF shape.kind = "list" /\ shape.n > 0
                     THEN /\ paragIdx' = 1
                          /\ fileIdx' = fileIdx
                     ELSE /\ paragIdx' = 0
                          /\ fileIdx' = fileIdx + 1
  /\ UNCHANGED <<filePaths, sortedPaths, currentTitle, hadithsById, keyOrder,
                 output, seen, prevHead, fragHead, primaryCount, fbFirst,
                 fbDropped, quotes, fbRan>>
  /\ UNCHANGED tVars

\* The heading text of a fragment, for fragHead: the texts of its heading
\* elements taken together, without the white space around them.
RECURSIVE HeadingsTogether(_)
HeadingsTogether(elems) ==
  IF elems = <<>> THEN <<>>
  ELSE (IF Head(elems).tag = "heading" THEN Head(elems).text ELSE <<>>)
         \o HeadingsTogether(Tail(elems))

Blank(t) == \A i \in 1..Len(t) : t[i] = " "

FragmentHeading(elems) ==
  LET t == HeadingsTogether(elems)
  IN IF Blank(t) THEN <<>>
     ELSE SubSeq(t, Min({ i \in 1..Len(t) : t[i] # " " }),
                    Max({ i \in 1..Len(t) : t[i] # " " }))

\* Lines 74-122: one fragment of the page: the heading, then every quotation.
ProcessParag(frags) ==
  /\ pc = "primary"
  /\ paragIdx > 0
  /\ LET path == sortedPaths[fileIdx]
         n == disk[path].n
     IN \E frag \in { f \in frags : quotes + NumQuotes(f) <= MaxQuotes } :
          LET title == TitleAfter(currentTitle, frag)
              heading == FragmentHeading(frag.elems)
              fh == IF heading = <<>> THEN fragHead ELSE heading
              acc == ApplyElems([h |-> hadithsById, order |-> keyOrder,
                                 seen |-> seen, prevHead |-> prevHead,
                                 here |-> {}],
                                frag.elems, path, frag.pid, title, fh)
          IN /\ currentTitle' = title
             /\ hadithsById' = acc.h
             /\ keyOrder' = acc.order
             /\ seen' = acc.seen
             /\ prevHead' = acc.prevHead
             /\ fragHead' = fh
             /\ quotes' = quotes + NumQuotes(frag)
             /\ paragIdx' = NextParag(n)
             /\ fileIdx' = NextFile(n)
  /\ UNCHANGED <<pc, filePaths, sortedPaths, disk, output, processed,
                 primaryCount, fbFirst, fbDropped, fbRan>>
  /\ UNCHANGED tVars

\* A reading that runs the second pass whatever the first found.
FallbackAlways(h) == TRUE

\* Line 126: Object.keys(hadithsById).length === 0
FallbackNeeded(h) == Cardinality(DOMAIN h) = 0

\* Lines 123-128: the primary pass is over; the fallback pass starts when it
\* left the map empty.
EndPrimary ==
  /\ pc = "primary"
  /\ fileIdx > Len(sortedPaths)
  /\ primaryCount' = Cardinality(DOMAIN hadithsById)
  /\ IF FallbackNeeded(hadithsById)
     THEN /\ pc' = "fallback"
          /\ fbRan' = TRUE
          /\ fileIdx' = 1
          /\ paragIdx' = 0
     ELSE /\ pc' = "write"
          /\ UNCHANGED <<fileIdx, paragIdx, fbRan>>
  /\ UNCHANGED <<filePaths, sortedPaths, disk, currentTitle, hadithsById,
                 keyOrder, output, processed, seen, prevHead, fragHead,
                 fbFirst, fbDropped, quotes>>
  /\ UNCHANGED tVars

\* Lines 128-137: the fallback pass reads the page again.
FallbackReadPage ==
  /\ pc = "fallback"
  /\ fileIdx <= Len(sortedPaths)
  /\ paragIdx = 0
  /\ LET shape == disk[sortedPaths[fileIdx]]
     IN IF shape.kind = "list" /\ shape.n > 0
        THEN /\ paragIdx' = 1
             /\ fileIdx' = fileIdx
        ELSE /\ paragIdx' = 0
             /\ fileIdx' = fileIdx + 1
  /\ UNCHANGED <<pc, filePaths, sortedPaths, disk, currentTitle, hadithsById,
                 keyOrder, output, processed, seen, prevHead, fragHead,
                 primaryCount, fbFirst, fbDropped, quotes, fbRan>>
  /\ UNCHANGED tVars

\* A reading in which a later match replaces the record.
FallbackPutOverwrite(h, id, rec) ==
  IF id \in DOMAIN h THEN [h EXCEPT ![id] = rec] ELSE h @@ (id :> rec)

\* hadithsById after a matching paragraph of the fallback pass: a record is
\* created only when the identity has none.
FallbackPut(h, id, rec) ==
  IF id \in DOMAIN h THEN h ELSE h @@ (id :> rec)

\* Lines 139-161: one fragment of the page in the fallback pass.
FallbackParag(parags) ==
  /\ pc = "fallback"
  /\ paragIdx > 0
  /\ LET path == sortedPaths[fileIdx]
         n == disk[path].n
     IN \E parag \in parags :
          LET id == FallbackId(parag.paragraphId)
              rec == FallbackHadith(id, path, currentTitle, parag.text)
          IN /\ IF HadithMatches(parag.text)
                THEN /\ hadithsById' = FallbackPut(hadithsById, id, rec)
                     /\ keyOrder' = IF id \in DOMAIN hadithsById THEN keyOrder
                                    ELSE Append(keyOrder, id)
                     /\ fbFirst' = IF id \in DOMAIN fbFirst THEN fbFirst
                                   ELSE fbFirst @@ (id :> rec)
                     /\ fbDropped' = IF id \in DOMAIN fbFirst /\ rec # fbFirst[id]
                                     THEN fbDropped \cup {id} ELSE fbDropped
                ELSE UNCHANGED <<hadithsById, keyOrder, fbFirst, fbDropped>>
             /\ paragIdx' = NextParag(n)
             /\ fileIdx' = NextFile(n)
  /\ UNCHANGED <<pc, filePaths, sortedPaths, disk, currentTitle, output,
                 processed, seen, prevHead, fragHead, primaryCount, quotes, fbRan>>
  /\ UNCHANGED tVars

\* Line 163: the fallback pass is over.
EndFallback ==
  /\ pc = "fallback"
  /\ fileIdx > Len(sortedPaths)
  /\ pc' = "write"
  /\ UNCHANGED <<filePaths, sortedPaths, fileIdx, paragIdx, disk, currentTitle,
                 hadithsById, keyOrder, output, processed, seen, prevHead,
                 fragHead, primaryCount, fbFirst, fbDropped, quotes, fbRan>>
  /\ UNCHANGED tVars

\* Lines 165-175: the records are finalized and hadiths.json is written.
WriteOutput ==
  /\ pc = "write"
  /\ output' = AllHadiths(hadithsById, keyOrder)
  /\ pc' = "done"
  /\ UNCHANGED <<filePaths, sortedPaths, fileIdx, paragIdx, disk, currentTitle,
                 hadithsById, keyOrder, processed, seen, prevHead, fragHead,
                 primaryCount, fbFirst, fbDropped, quotes, fbRan>>
  /\ UNCHANGED tVars

ParserNext(frags, parags) ==
  \/ OrderPaths
  \/ ReadPage
  \/ ProcessParag(frags)
  \/ EndPrimary
  \/ FallbackReadPage
  \/ FallbackParag(parags)
  \/ EndFallback
  \/ WriteOutput

\* ------------------------------------------------------------- translation

\* Records of hadiths.json.
MaxHadiths == 2
\* Invocations of the translation driver, one after the other.
MaxRuns == 2
\* apiKeys.length where the driver's runs are looked at.
NumKeys == 2
\* The largest apiKeys.length where its requests are looked at.
MaxKeys == 3

\* The titles and contents in hadiths.json, and what the service may answer.
\* "s" and "e" stand for the abbreviations "(ص)" and "(ع)".
SourceTitles == { <<"T">>, <<"V">> }
SourceContents == { <<" ">>, <<"c", "s">> }
Translations == { <<>>, <<"x">>, <<"y", " ">> }

\* hadiths.json: records with the identities 1, 2, ... in this order.
SourceGhaels == { <<"g", "e">> }

InputRecords(n) ==
  { l \in [1..n -> [id : 1..n, title : SourceTitles, content : SourceContents,
                    ghael : SourceGhaels]] :
      \A i \in 1..n : l[i].id = i }

HadithInputs == UNION { InputRecords(n) : n \in 0..MaxHadiths }

\* const maxAttempts = apiKeys.length * 3
AttemptsPerKey == 3
\* A reading that allows one request more.
MaxAttemptsMore == apiKeys * AttemptsPerKey + 1

MaxAttempts == apiKeys * AttemptsPerKey

\* hadiths_translated.json: missing, or a list of records.
NoFile == [kind |-> "absent", recs |-> <<>>]
BadFile == [kind |-> "bad", recs |-> <<>>]
FileOf(recs) == [kind |-> "ok", recs |-> recs]

\* { ...hadith, title_fa: translatedTitle.trim(), content_fa: translatedContent.trim() }
NewTranslated(hadith, titleResult, contentResult) ==
  [id |-> hadith.id, title |-> hadith.title, content |-> hadith.content,
   ghael |-> hadith.ghael,
   title_fa |-> Trim(titleResult), content_fa |-> Trim(contentResult)]

\* A reading that leaves title and content where they were.
PassThroughKeep(hadith) ==
  [id |-> hadith.id, title |-> hadith.title, content |-> hadith.content,
   ghael |-> hadith.ghael,
   title_fa |-> hadith.title, content_fa |-> hadith.content]

\* { ...hadith, title: "", content: "", title_fa: hadith.title, content_fa: hadith.content }
PassThrough(hadith) ==
  [id |-> hadith.id, title |-> <<>>, content |-> <<>>,
   ghael |-> hadith.ghael,
   title_fa |-> hadith.title, content_fa |-> hadith.content]

\* .replace(/\(ص\)/g, "(صلوات الله علیه)").replace(/\(ع\)/g, "(علیه السلام)"):
\* "S" and "E" stand for the expansions.
FixText(t) ==
  [i \in 1..Len(t) |-> IF t[i] = "s" THEN "S" ELSE IF t[i] = "e" THEN "E" ELSE t[i]]

FixRecord(r) ==
  [id |-> r.id, title |-> FixText(r.title), content |-> FixText(r.content),
   ghael |-> FixText(r.ghael),
   title_fa |-> FixText(r.title_fa), content_fa |-> FixText(r.content_fa)]

FixFile(recs) == [i \in 1..Len(recs) |-> FixRecord(recs[i])]

\* hadiths.json on disk: a list of records, or something main cannot parse.
InputFiles ==
  { [kind |-> "ok", recs |-> l] : l \in HadithInputs } \cup
  { [kind |-> "bad", recs |-> <<>>] }

vars == <<parserVars, tVars>>

NoText == <<>>

\* No request has been made yet.
NoRequest == [outcome |-> "none", paused |-> FALSE, streak |-> 0]

\* The process has not ended.
Running == -1

\* The state of a freshly started process, before main runs.
ProcessStart ==
  /\ tpc = "main"
  /\ hadiths = <<>>
  /\ translatedHadiths = <<>>
  /\ translatedIds = {}
  /\ hIdx = 0
  /\ translatedTitle = NoText
  /\ attempt = 0
  /\ currentApiKeyIndex = 0
  /\ consecutiveErrors = 0
  /\ fullCycleCompleted = FALSE
  /\ titleCache = Empty
  /\ requested = {}
  /\ titleAnswer = Empty
  /\ titleRequests = [t \in SourceTitles |-> 0]
  /\ lateRequests = {}
  /\ withAnswer = {}
  /\ titleUses = [t \in SourceTitles |-> 0]
  /\ doTranslate = "unasked"
  /\ exitCode = Running
  /\ lastRequest = NoRequest
  /\ wrapSeen = FALSE

TranslateInit(inputs, pools) ==
  /\ ProcessStart
  /\ run = 1
  /\ input \in inputs
  /\ apiKeys \in pools
  /\ exhausted = {}
  /\ file \in { NoFile, BadFile }
  /\ resumeIds = {}
  /\ completed = {}
  /\ completedBefore = {}

\* The translation driver is not running.
TranslateIdle ==
  /\ ProcessStart
  /\ run = 1
  /\ input = [kind |-> "ok", recs |-> <<>>]
  /\ apiKeys = NumKeys
  /\ exhausted = {}
  /\ file = NoFile
  /\ resumeIds = {}
  /\ completed = {}
  /\ completedBefore = {}

IdsOf(recs) == { recs[i].id : i \in 1..Len(recs) }

FileIds == IdsOf(file.recs)

\* The variables of the running process, as opposed to the disk's.
processVars ==
  <<hadiths, translatedHadiths, translatedIds, hIdx, translatedTitle, attempt,
    currentApiKeyIndex, consecutiveErrors, fullCycleCompleted, titleCache>>

keyVars == <<currentApiKeyIndex, consecutiveErrors, fullCycleCompleted>>

titleGhosts == <<titleAnswer, titleRequests, lateRequests, withAnswer, titleUses>>

runGhosts == <<resumeIds, completedBefore>>

requestGhosts == <<lastRequest, wrapSeen>>

\* main, lines 111-112: hadiths.json is read and parsed; a failure is caught
\* at the end of main, which goes on to fixTranslatedFile.
ReadInput ==
  /\ tpc = "main"
  /\ IF input.kind = "ok"
       THEN /\ hadiths' = input.recs
            /\ tpc' = "confirm"
       ELSE /\ tpc' = "fix"
            /\ UNCHANGED hadiths
  /\ UNCHANGED <<run, input, file, translatedHadiths, translatedIds, hIdx,
                 translatedTitle, attempt, keyVars, titleCache, requested,
                 completed, titleGhosts, runGhosts>>
  /\ UNCHANGED <<apiKeys, doTranslate, exitCode, lastRequest, wrapSeen, exhausted>>
  /\ UNCHANGED parserVars

\* The answer is no: every record is written untranslated, and main returns.
Decline ==
  /\ tpc = "confirm"
  /\ file' = FileOf([i \in 1..Len(hadiths) |-> PassThrough(hadiths[i])])
  /\ doTranslate' = "no"
  /\ exitCode' = 0
  /\ tpc' = "done"
  /\ UNCHANGED <<run, input, processVars, requested, completed, titleGhosts,
                 runGhosts>>
  /\ UNCHANGED <<apiKeys, lastRequest, wrapSeen, exhausted>>
  /\ UNCHANGED parserVars

\* The answer is yes, and the partial results are there to be loaded.
LoadResume ==
  /\ tpc = "confirm"
  /\ file.kind = "ok"
  /\ translatedHadiths' = file.recs
  /\ doTranslate' = "yes"
  /\ translatedIds' = IdsOf(file.recs)
  /\ tpc' = "loop"
  /\ UNCHANGED <<run, input, file, hadiths, hIdx, translatedTitle, attempt,
                 keyVars, titleCache, requested, completed, titleGhosts,
                 runGhosts>>
  /\ UNCHANGED <<apiKeys, exitCode, lastRequest, wrapSeen, exhausted>>
  /\ UNCHANGED parserVars

\* The answer is yes, and there is no file (ENOENT).
LoadFresh ==
  /\ tpc = "confirm"
  /\ file.kind = "absent"
  /\ translatedHadiths' = <<>>
  /\ translatedIds' = {}
  /\ tpc' = "loop"
  /\ doTranslate' = "yes"
  /\ UNCHANGED <<run, input, file, hadiths, hIdx, translatedTitle, attempt,
                 keyVars, titleCache, requested, completed, titleGhosts,
                 runGhosts>>
  /\ UNCHANGED <<apiKeys, exitCode, lastRequest, wrapSeen, exhausted>>
  /\ UNCHANGED parserVars

\* The answer is yes, and the file cannot be parsed: the error is thrown on
\* and caught at the end of main.
LoadFails ==
  /\ tpc = "confirm"
  /\ file.kind = "bad"
  /\ doTranslate' = "yes"
  /\ tpc' = "fix"
  /\ UNCHANGED <<run, input, file, processVars, requested, completed,
                 titleGhosts, runGhosts>>
  /\ UNCHANGED <<apiKeys, exitCode, lastRequest, wrapSeen, exhausted>>
  /\ UNCHANGED parserVars

\* The record the for loop stands at.
Hadith == hadiths[hIdx + 1]

\* A reading that lets the loop forget what the file held.
AlwaysTranslate(ids, hadith) == FALSE

\* translatedIds.has(hadith.id)
AlreadyTranslated(ids, hadith) == hadith.id \in ids

\* !hadith.content.trim()
BlankContent(hadith) == Trim(hadith.content) = <<>>

\* The loop passes a record that is translated already, or has no body.
SkipHadith ==
  /\ tpc = "loop"
  /\ hIdx < Len(hadiths)
  /\ AlreadyTranslated(translatedIds, Hadith) \/ BlankContent(Hadith)
  /\ hIdx' = hIdx + 1
  /\ UNCHANGED <<tpc, run, input, file, hadiths, translatedHadiths,
                 translatedIds, translatedTitle, attempt, keyVars, titleCache,
                 requested, completed, titleGhosts, runGhosts>>
  /\ UNCHANGED <<apiKeys, doTranslate, exitCode, lastRequest, wrapSeen, exhausted>>
  /\ UNCHANGED parserVars

\* A reading without the cache.
CacheNever(cache, text) == FALSE

\* titleCache[text], as a condition
CacheHit(cache, text) == text \in DOMAIN cache /\ cache[text] # <<>>

NeedsTranslation ==
  /\ tpc = "loop"
  /\ hIdx < Len(hadiths)
  /\ ~ AlreadyTranslated(translatedIds, Hadith)
  /\ ~ BlankContent(Hadith)

\* The identities translated once their title's answer was there.
WithAnswer(answers) ==
  IF Hadith.title \in DOMAIN answers THEN withAnswer \cup {Hadith.id} ELSE withAnswer

\* What is known of the attempts used up, when a record's translation starts.
StillExhausted == { e \in exhausted : e[1] # Hadith.id }

\* translateText(hadith.title, true) finds the title in the cache, and
\* translateText(hadith.content) is called.
TitleFromCache ==
  /\ NeedsTranslation
  /\ CacheHit(titleCache, Hadith.title)
  /\ translatedTitle' = titleCache[Hadith.title]
  /\ attempt' = 0
  /\ tpc' = "content"
  /\ withAnswer' = WithAnswer(titleAnswer)
  /\ UNCHANGED <<run, input, file, hadiths, translatedHadiths, translatedIds,
                 hIdx, keyVars, titleCache, requested, completed, titleAnswer,
                 titleRequests, lateRequests, titleUses, runGhosts>>
  /\ exhausted' = StillExhausted
  /\ UNCHANGED <<apiKeys, doTranslate, exitCode, lastRequest, wrapSeen>>
  /\ UNCHANGED parserVars

\* translateText(hadith.title, true) does not find it and enters its loop.
TitleCall ==
  /\ NeedsTranslation
  /\ ~ CacheHit(titleCache, Hadith.title)
  /\ attempt' = 0
  /\ tpc' = "title"
  /\ UNCHANGED <<run, input, file, hadiths, translatedHadiths, translatedIds,
                 hIdx, translatedTitle, keyVars, titleCache, requested,
                 completed, titleGhosts, runGhosts>>
  /\ exhausted' = StillExhausted
  /\ UNCHANGED <<apiKeys, doTranslate, exitCode, lastRequest, wrapSeen>>
  /\ UNCHANGED parserVars

\* error.status === 429 || error.status === 503
ErrorKinds == { "retryable", "other" }

BackoffThreshold == 2

\* The catch block of translateText, lines 65-88.
ErrorsCounted(kind) == IF kind = "retryable" THEN consecutiveErrors + 1 ELSE 0

\* A reading that stays with the key.
NextKeyStuck == currentApiKeyIndex

NextKey == (currentApiKeyIndex + 1) % apiKeys

CycleCompleted == fullCycleCompleted \/ NextKey = 0

\* A reading that does not wait for the keys to have gone round.
BacksOffEarly(kind) == ErrorsCounted(kind) >= BackoffThreshold

BacksOff(kind) == CycleCompleted /\ ErrorsCounted(kind) >= BackoffThreshold

AfterFailure(kind) ==
  /\ currentApiKeyIndex' = NextKey
  /\ fullCycleCompleted' = CycleCompleted
  /\ consecutiveErrors' = IF BacksOff(kind) THEN 0 ELSE ErrorsCounted(kind)

\* Lines 59-60.
AfterSuccess ==
  /\ consecutiveErrors' = 0
  /\ UNCHANGED <<currentApiKeyIndex, fullCycleCompleted>>

\* The retryable failures in a row that this one ends, counted from the last
\* success, failure of another kind or pause.
StreakWith(kind) ==
  IF kind # "retryable" THEN 0
  ELSE IF lastRequest.outcome = "retryable" /\ ~ lastRequest.paused
         THEN lastRequest.streak + 1 ELSE 1

\* What a failed request leaves in the history: its kind, whether the
\* process slept after it (lines 83-85), and whether the first key came up.
FailureSeen(kind) ==
  /\ lastRequest' =
       [outcome |-> kind, paused |-> BacksOff(kind), streak |-> StreakWith(kind)]
  /\ wrapSeen' = (wrapSeen \/ currentApiKeyIndex' = 0)

SuccessSeen ==
  /\ lastRequest' = [outcome |-> "ok", paused |-> FALSE, streak |-> 0]
  /\ UNCHANGED wrapSeen

\* A reading that returns nothing when the attempts are used up.
SubstitutedEmpty(text) == <<>>

\* Line 92: return text
Substituted(text) == text

\* The histories count to two.
CountUp(n) == IF n < 2 THEN n + 1 ELSE n

\* What a request for the title leaves in the history.
TitleRequested ==
  /\ requested' = requested \cup {Hadith.id}
  /\ titleRequests' =
       [titleRequests EXCEPT ![Hadith.title] = CountUp(@)]
  /\ lateRequests' =
       IF Hadith.title \in DOMAIN titleAnswer
         THEN lateRequests \cup {Hadith.title} ELSE lateRequests

\* The request for the title is answered.
TitleTranslated ==
  /\ tpc = "title"
  /\ attempt < MaxAttempts
  /\ \E translated \in Translations :
       /\ titleCache' = (Hadith.title :> translated) @@ titleCache
       /\ translatedTitle' = translated
       /\ titleAnswer' =
            IF translated # <<>> /\ Hadith.title \notin DOMAIN titleAnswer
              THEN (Hadith.title :> translated) @@ titleAnswer ELSE titleAnswer
  /\ AfterSuccess
  /\ SuccessSeen
  /\ TitleRequested
  /\ withAnswer' = WithAnswer(titleAnswer')
  /\ attempt' = 0
  /\ tpc' = "content"
  /\ UNCHANGED <<run, input, file, hadiths, translatedHadiths, translatedIds,
                 hIdx, completed, titleUses, runGhosts>>
  /\ UNCHANGED <<apiKeys, doTranslate, exitCode, exhausted>>
  /\ UNCHANGED parserVars

\* The request for the title fails; after the last attempt translateText
\* returns the text it was given.
TitleFailed ==
  /\ tpc = "title"
  /\ attempt < MaxAttempts
  /\ \E kind \in ErrorKinds : AfterFailure(kind) /\ FailureSeen(kind)
  /\ TitleRequested
  /\ IF attempt + 1 < MaxAttempts
       THEN /\ attempt' = attempt + 1
            /\ UNCHANGED <<tpc, translatedTitle, withAnswer, exhausted>>
       ELSE /\ translatedTitle' = Substituted(Hadith.title)
            /\ exhausted' = exhausted \cup {<<Hadith.id, "title">>}
            /\ withAnswer' = WithAnswer(titleAnswer)
            /\ attempt' = 0
            /\ tpc' = "content"
  /\ UNCHANGED <<run, input, file, hadiths, translatedHadiths, translatedIds,
                 hIdx, titleCache, completed, titleAnswer, titleUses,
                 runGhosts>>
  /\ UNCHANGED <<apiKeys, doTranslate, exitCode>>
  /\ UNCHANGED parserVars

\* A reading that keeps the new record only.
PushedAlone(list, newHadith) == <<newHadith>>

\* translatedHadiths.push(newHadith)
Pushed(list, newHadith) == Append(list, newHadith)

\* translateText(hadith.content) has returned: the record is built and
\* pushed, and the file is about to be written.
ContentReturns(translatedContent) ==
  /\ translatedHadiths' =
       Pushed(translatedHadiths,
              NewTranslated(Hadith, translatedTitle, translatedContent))
  /\ completed' = completed \cup {Hadith.id}
  /\ titleUses' = [titleUses EXCEPT ![Hadith.title] = CountUp(@)]
  /\ attempt' = 0
  /\ tpc' = "save"

\* The request for the content is answered.
ContentTranslated ==
  /\ tpc = "content"
  /\ attempt < MaxAttempts
  /\ \E translated \in Translations : ContentReturns(translated)
  /\ AfterSuccess
  /\ SuccessSeen
  /\ requested' = requested \cup {Hadith.id}
  /\ UNCHANGED <<run, input, file, hadiths, translatedIds, hIdx,
                 translatedTitle, titleCache, titleAnswer, titleRequests,
                 lateRequests, withAnswer, runGhosts>>
  /\ UNCHANGED <<apiKeys, doTranslate, exitCode, exhausted>>
  /\ UNCHANGED parserVars

\* The request for the content fails.
ContentFailed ==
  /\ tpc = "content"
  /\ attempt < MaxAttempts
  /\ \E kind \in ErrorKinds : AfterFailure(kind) /\ FailureSeen(kind)
  /\ requested' = requested \cup {Hadith.id}
  /\ IF attempt + 1 < MaxAttempts
       THEN /\ attempt' = attempt + 1
            /\ UNCHANGED <<tpc, translatedHadiths, completed, titleUses,
                           exhausted>>
       ELSE /\ ContentReturns(Substituted(Hadith.content))
            /\ exhausted' = exhausted \cup {<<Hadith.id, "content">>}
  /\ UNCHANGED <<run, input, file, hadiths, translatedIds, hIdx,
                 translatedTitle, titleCache, titleAnswer, titleRequests,
                 lateRequests, withAnswer, runGhosts>>
  /\ UNCHANGED <<apiKeys, doTranslate, exitCode>>
  /\ UNCHANGED parserVars

\* Lines 176-179: the whole list is written, and the loop goes on.
SaveTranslated ==
  /\ tpc = "save"
  /\ file' = FileOf(translatedHadiths)
  /\ hIdx' = hIdx + 1
  /\ tpc' = "loop"
  /\ UNCHANGED <<run, input, hadiths, translatedHadiths, translatedIds,
                 translatedTitle, attempt, keyVars, titleCache, requested,
                 completed, titleGhosts, runGhosts>>
  /\ UNCHANGED <<apiKeys, doTranslate, exitCode, lastRequest, wrapSeen, exhausted>>
  /\ UNCHANGED parserVars

\* The loop is over.
EndLoop ==
  /\ tpc = "loop"
  /\ hIdx = Len(hadiths)
  /\ tpc' = "fix"
  /\ UNCHANGED <<run, input, file, processVars, requested, completed,
                 titleGhosts, runGhosts>>
  /\ UNCHANGED <<apiKeys, doTranslate, exitCode, lastRequest, wrapSeen, exhausted>>
  /\ UNCHANGED parserVars

\* fixTranslatedFile: the replacements are made in the text of the file; a
\* file that cannot be read is an error that is logged.
FixTranslatedFile ==
  /\ tpc = "fix"
  /\ file' = IF file.kind = "ok" THEN FileOf(FixFile(file.recs)) ELSE file
  /\ exitCode' = 0
  /\ tpc' = "done"
  /\ UNCHANGED <<run, input, processVars, requested, completed, titleGhosts,
                 runGhosts>>
  /\ UNCHANGED <<apiKeys, doTranslate, lastRequest, wrapSeen, exhausted>>
  /\ UNCHANGED parserVars

\* The process is interrupted between two writes.
Interrupt ==
  /\ tpc \notin { "done", "interrupted" }
  /\ tpc' = "interrupted"
  /\ UNCHANGED <<run, input, file, processVars, requested, completed,
                 titleGhosts, runGhosts>>
  /\ UNCHANGED <<apiKeys, doTranslate, exitCode, lastRequest, wrapSeen, exhausted>>
  /\ UNCHANGED parserVars

\* The driver is invoked again.
Invoke ==
  /\ tpc \in { "done", "interrupted" }
  /\ run < MaxRuns
  /\ run' = run + 1
  /\ tpc' = "main"
  /\ hadiths' = <<>>
  /\ translatedHadiths' = <<>>
  /\ translatedIds' = {}
  /\ hIdx' = 0
  /\ translatedTitle' = NoText
  /\ attempt' = 0
  /\ currentApiKeyIndex' = 0
  /\ consecutiveErrors' = 0
  /\ fullCycleCompleted' = FALSE
  /\ titleCache' = Empty
  /\ requested' = {}
  /\ titleAnswer' = Empty
  /\ titleRequests' = [t \in SourceTitles |-> 0]
  /\ lateRequests' = {}
  /\ withAnswer' = {}
  /\ titleUses' = [t \in SourceTitles |-> 0]
  /\ doTranslate' = "unasked"
  /\ exitCode' = Running
  /\ lastRequest' = NoRequest
  /\ wrapSeen' = FALSE
  /\ resumeIds' = FileIds
  /\ completedBefore' = completed
  /\ UNCHANGED <<input, file, completed>>
  /\ UNCHANGED <<apiKeys, exhausted>>
  /\ UNCHANGED parserVars

TranslateNext ==
  \/ ReadInput
  \/ Decline
  \/ LoadResume
  \/ LoadFresh
  \/ LoadFails
  \/ SkipHadith
  \/ TitleFromCache
  \/ TitleCall
  \/ TitleTranslated
  \/ TitleFailed
  \/ ContentTranslated
  \/ ContentFailed
  \/ SaveTranslated
  \/ EndLoop
  \/ FixTranslatedFile
  \/ Interrupt
  \/ Invoke

\* Three corpora.  Each specification runs the same parser over one of them.

\* Paragraphs of one identifier whose text matches the fallback pattern or
\* does not.
PlainParags ==
  [paragraphId : {"p1"}, text : { <<"x">>, <<"x", "F", "y", "Q">> }]

\* Two pages that differ in volume and page number.
CorpusPaths ==
  { PagePath(<<2>>, <<1>>, <<1, 2>>), PagePath(<<1, 0>>, <<1>>, <<3>>) }

\* The merge corpus: quotations with and without an index attribute, in
\* paragraphs with and without an id, with empty, equal and distinct bodies;
\* in the fallback pass, every paragraph text and identifier.
MergeFragments ==
  FragmentsOf(ParaIds,
              HadithElems(BodyTexts, IndexAttrs \cup {NoIndex}, {NoSanad}))

Init == ParserInit(CorpusPaths) /\ TranslateIdle

Next == ParserNext(MergeFragments, FallbackParags)

Spec == Init /\ [][Next]_vars

\* The title corpus: headings, and indexed quotations with and without a
\* sanad; in the fallback pass, plain paragraphs.
TitleFragments ==
  FragmentsOf({NoParaId},
              HeadingElems(HeadingTexts)
                \cup HadithElems({ <<"a">>, <<"b">> }, IndexAttrs, SanadTexts))

NextTitle == ParserNext(TitleFragments, PlainParags)

SpecTitle == Init /\ [][NextTitle]_vars

\* The ordering corpus: every list of paths, with fragments that hold one
\* plain quotation or nothing; in the fallback pass, plain paragraphs.
PlainQuote ==
  [tag |-> "hadith", text |-> <<"a">>, idx |-> "5", sanad |-> NoSanad]
PlainFragments == [pid : {NoParaId}, elems : { <<>>, <<PlainQuote>> }]

InitOrder == ParserInit(AllPaths) /\ TranslateIdle

NextOrder == ParserNext(PlainFragments, PlainParags)

SpecOrder == InitOrder /\ [][NextOrder]_vars

\* The translation driver, run up to MaxRuns times over one hadiths.json.
InitTranslate == ParserInit({}) /\ TranslateInit(InputFiles, {NumKeys})

NextTranslate == TranslateNext

SpecTranslate == InitTranslate /\ [][NextTranslate]_vars

\* The same driver over records with one title, with one to MaxKeys keys.
KeyInputs ==
  { f \in InputFiles : \A i \in 1..Len(f.recs) : f.recs[i].title = <<"T">> }

InitKeys == ParserInit({}) /\ TranslateInit(KeyInputs, 1..MaxKeys)

NextKeys == TranslateNext

SpecKeys == InitKeys /\ [][NextKeys]_vars

\* ------------------------------------------------------------------ claims

Range(l) == { l[i] : i \in 1..Len(l) }

IsPrefix(a, b) == Len(a) <= Len(b) /\ SubSeq(b, 1, Len(a)) = a

PrimaryIds == { id \in DOMAIN hadithsById : id.kind # "fallback" }

\* Every identity that occurred has one record under its own key, and the
\* record lists the pages and the non-empty bodies of its occurrences once
\* each.
MergedOnce ==
  /\ DOMAIN seen = PrimaryIds
  /\ NoRepeat(keyOrder)
  /\ Range(keyOrder) = DOMAIN hadithsById
  /\ \A id \in PrimaryIds :
       LET rec == hadithsById[id]
       IN /\ rec.id = id
          /\ rec.pages # <<>>
          /\ NoRepeat(rec.pages)
          /\ Range(rec.pages) = seen[id].pages
          /\ NoRepeat(rec.parts)
          /\ Range(rec.parts) = seen[id].bodies
          /\ <<>> \notin Range(rec.parts)
  /\ pc = "done" =>
       /\ Len(output) = Cardinality(DOMAIN hadithsById)
       /\ \A i, j \in 1..Len(output) : output[i].id = output[j].id => i = j

\* A step only appends to pages and parts: they stand in the order of first
\* encounter.
FirstSeenOrder ==
  \A id \in DOMAIN hadithsById :
    /\ id \in DOMAIN hadithsById'
    /\ IsPrefix(hadithsById[id].pages, hadithsById'[id].pages)
    /\ IsPrefix(hadithsById[id].parts, hadithsById'[id].parts)

\* C1: after any sequence of quotation occurrences, the occurrences of one
\* identity are one record, whose pages are non-empty, without duplicates and
\* hold every page of the identity in order of first encounter, and whose
\* parts are without duplicates and hold every distinct non-empty body in
\* first-seen order.
C1_MergeCorrectness == [](MergedOnce) /\ [][FirstSeenOrder]_vars

\* Three occurrences of one identity on two pages: two distinct bodies kept in
\* the order met, the third occurrence adding no part.
C1_Witness ==
  /\ quotes = 3
  /\ Cardinality(DOMAIN hadithsById) = 1
  /\ \E id \in DOMAIN hadithsById :
       /\ hadithsById[id].pages = <<12, 3>>
       /\ hadithsById[id].parts = << <<"b">>, <<"a">> >>

\* (volume, section, page) of a in lexicographic order not after that of b.
TripleLeq(a, b) ==
  \/ Volume(a) < Volume(b)
  \/ Volume(a) = Volume(b) /\ Section(a) < Section(b)
  \/ Volume(a) = Volume(b) /\ Section(a) = Section(b) /\ Page(a) <= Page(b)

\* C2: the files the parser processes are the discovered paths that match the
\* pattern, each once, in non-decreasing (volume, section, page) order, the
\* three compared as integers.
C2_ProcessingOrder ==
  pc # "start" =>
    /\ NoRepeat(sortedPaths)
    /\ Range(sortedPaths) = { p \in Range(filePaths) : Matches(p) }
    /\ \A i, j \in 1..Len(sortedPaths) :
         i < j => TripleLeq(sortedPaths[i], sortedPaths[j])
    /\ IsPrefix(processed, sortedPaths)
    /\ pc \in {"fallback", "write", "done"} => processed = sortedPaths

\* A run to the end over three discovered paths: one does not match, and the
\* other two are processed in the reverse of their discovery order, volume 2
\* before volume 10.
C2_Witness ==
  /\ pc = "done"
  /\ Len(filePaths) = 3
  /\ \E i \in 1..3 : ~Matches(filePaths[i])
  /\ Len(processed) = 2
  /\ Volume(processed[1]) = 2
  /\ Volume(processed[2]) = 10
  /\ \E i, j \in 1..3 :
       i < j /\ filePaths[i] = processed[2] /\ filePaths[j] = processed[1]

\* C3 as the claim states it: the title of a record of the primary pass is
\* the text of the last heading element before the occurrence that created
\* it, or 'Untitled' when there was none.
C3_TitleIsPrecedingHeading ==
  \A id \in PrimaryIds : hadithsById[id].title = seen[id].elemHead

\* C3, amended: the title of a record of the primary pass is the heading text
\* (the texts of the heading elements taken together, trimmed) of the last
\* fragment, up to and including the fragment of the occurrence that created
\* the record, whose heading text is not empty, or 'Untitled' when there is
\* no such fragment.
C3_TitleIsFragmentHeading ==
  \A id \in PrimaryIds : hadithsById[id].title = seen[id].fragHead

\* A record titled by a heading that stands behind its quotation in the same
\* fragment: no heading element came before the quotation.
C3_Witness ==
  \E id \in PrimaryIds :
    /\ seen[id].elemHead = Untitled
    /\ hadithsById[id].title = <<"H">>

\* C4: a later occurrence of an identity leaves vol, sec, id, title, ghael and
\* sanad of its record as they are; pages and parts only grow.
C4_MergeFrame ==
  [][\A id \in DOMAIN hadithsById :
       /\ id \in DOMAIN hadithsById'
       /\ hadithsById'[id].vol = hadithsById[id].vol
       /\ hadithsById'[id].sec = hadithsById[id].sec
       /\ hadithsById'[id].id = hadithsById[id].id
       /\ hadithsById'[id].title = hadithsById[id].title
       /\ hadithsById'[id].ghael = hadithsById[id].ghael
       /\ hadithsById'[id].sanad = hadithsById[id].sanad
       /\ IsPrefix(hadithsById[id].pages, hadithsById'[id].pages)
       /\ IsPrefix(hadithsById[id].parts, hadithsById'[id].parts)]_vars

\* A record that a later occurrence, differing from it in volume, title or
\* sanad, has extended by a page and a part.
C4_Witness ==
  \E id \in PrimaryIds :
    /\ seen[id].differed
    /\ Len(hadithsById[id].pages) = 2
    /\ Len(hadithsById[id].parts) = 2
    /\ hadithsById[id].title # currentTitle

\* C5 as the claim states it: no identity is synthesized for quotation
\* elements of two different paragraphs.
C5_SynthesizedIdsUnique ==
  \A id \in PrimaryIds : seen[id].paras <= 1

FallbackIds == { id \in DOMAIN hadithsById : id.kind = "fallback" }

\* C6: the fallback pass runs exactly when the primary pass has ended with an
\* empty map; when the primary pass produced a record, no fallback record is
\* ever created.
C6_FallbackActivation ==
  /\ primaryCount = -1 => ~fbRan /\ pc \in {"start", "primary", "failed"}
  /\ primaryCount # -1 => (fbRan <=> primaryCount = 0)
  /\ pc = "fallback" => fbRan
  /\ ~fbRan => FallbackIds = {}
  /\ primaryCount > 0 => FallbackIds = {} /\ pc \in {"write", "done"}

\* The run ended after a fallback pass that created a record.
C6_Witness ==
  /\ pc = "done"
  /\ fbRan
  /\ primaryCount = 0
  /\ FallbackIds # {}
  /\ Len(output) > 0

\* C7: a matching paragraph whose fallback identity has a record already
\* changes nothing: the record stays the one of the first matching paragraph.
C7_FallbackFirstWins ==
  /\ DOMAIN fbFirst = FallbackIds
  /\ \A id \in FallbackIds : hadithsById[id] = fbFirst[id]

\* A later matching paragraph gave another record for an identity that had
\* one.
C7_Witness ==
  /\ fbDropped # {}
  /\ pc = "done"

\* The loop of a translating run over a readable input has ended.
LoopEnded ==
  /\ tpc \in { "fix", "done" }
  /\ input.kind = "ok"
  /\ file.kind # "bad"
  /\ hIdx = Len(hadiths)
  /\ hadiths = input.recs

InputIds == IdsOf(input.recs)

NonBlankIds == { input.recs[i].id : i \in { j \in 1..Len(input.recs) : ~ BlankContent(input.recs[j]) } }

\* C8 as stated: a run that starts with records for a set S of identities in
\* the partial file asks the service about no record of S, and when its loop
\* has ended the file holds a record for every identity of hadiths.json.
C8_ResumeCoversInput ==
  /\ requested \cap resumeIds = {}
  /\ (LoopEnded /\ resumeIds # {}) => InputIds \subseteq FileIds

\* C8: a run asks the service about no record whose identity the partial file
\* held when it started; when its loop has ended it has asked about exactly
\* the other records whose content is not blank, and the file holds the
\* identities it started with and those: a record with a blank content is
\* passed without a request and without a record.
C8_ResumeTranslatesNonBlank ==
  /\ requested \cap resumeIds = {}
  /\ LoopEnded =>
       /\ requested = NonBlankIds \ resumeIds
       /\ FileIds = resumeIds \cup NonBlankIds

C8_Witness ==
  /\ LoopEnded
  /\ run = 2
  /\ resumeIds # {}
  /\ requested # {}
  /\ requested = InputIds \ resumeIds

\* The completed records the file does not hold.
Lost == completed \ FileIds

\* A write of the loop adds the record just translated to the records the
\* file held, which stay as they were and where they were.
SaveAppends ==
  (tpc = "save" /\ tpc' = "loop") =>
     /\ file'.kind = "ok"
     /\ Len(file'.recs) = Len(file.recs) + 1
     /\ SubSeq(file'.recs, 1, Len(file.recs)) = file.recs
     /\ file'.recs[Len(file'.recs)].id = Hadith.id

\* Every completed translation is followed by a write.
CompletionIsSaved == (completed' # completed) => tpc' = "save"

\* C9: each record translated is written at once, after the records the file
\* held; so at any interruption the file lacks at most one completed record,
\* the one whose write was pending, and the next run translates again at most
\* that one.
C9_RecordCheckpointing ==
  /\ [](/\ Cardinality(Lost) <= 1
        /\ (run = 1 /\ tpc \notin { "save", "interrupted" }) => Lost = {}
        /\ tpc = "save" => Lost = {Hadith.id}
        /\ Cardinality(requested \cap completedBefore) <= 1
        /\ requested \cap completedBefore \subseteq completedBefore \ resumeIds)
  /\ [][SaveAppends /\ CompletionIsSaved]_vars

C9_Witness ==
  /\ run = 2
  /\ tpc = "loop"
  /\ resumeIds # {}
  /\ requested \cap completedBefore # {}
  /\ Len(file.recs) = 2
  /\ Lost = {}

\* The records this run has translated.
TranslatedNow ==
  { i \in 1..Len(translatedHadiths) : translatedHadiths[i].id \notin resumeIds }

\* C10 as stated: when a run has translated two records with one title, it
\* has asked for that title once, and both have the answer as their title_fa.
C10_TitleAskedOnce ==
  tpc \in { "loop", "title", "content", "save" } =>
    \A t \in SourceTitles :
      titleUses[t] = 2 =>
        /\ titleRequests[t] = 1
        /\ t \in DOMAIN titleAnswer
        /\ \A i \in TranslatedNow :
             translatedHadiths[i].title = t =>
               translatedHadiths[i].title_fa = Trim(titleAnswer[t])

\* C10: once a request for a title has been answered with a translation that
\* is not empty, the run makes no other request for that title, and every
\* record it translates from then on with that title, the one the request was
\* for included, has that answer, trimmed, as its title_fa.
C10_TitleAnswerReused ==
  tpc \in { "loop", "title", "content", "save" } =>
    /\ lateRequests = {}
    /\ \A i \in TranslatedNow :
         translatedHadiths[i].id \in withAnswer =>
           /\ translatedHadiths[i].title \in DOMAIN titleAnswer
           /\ translatedHadiths[i].title_fa =
                Trim(titleAnswer[translatedHadiths[i].title])
    /\ (tpc \in { "content", "save" } /\ Hadith.id \in withAnswer) =>
         translatedTitle = titleAnswer[Hadith.title]

C10_Witness ==
  /\ tpc = "loop"
  /\ \E t \in DOMAIN titleAnswer :
       /\ titleUses[t] = 2
       /\ titleRequests[t] = 2
       /\ Cardinality({ i \in TranslatedNow :
            /\ translatedHadiths[i].title = t
            /\ translatedHadiths[i].id \in withAnswer }) = 2

\* A step in which a request to the service ends.
RequestStep == tpc \in { "title", "content" } /\ tpc' # "interrupted"

FailedStep == RequestStep /\ lastRequest'.outcome \in ErrorKinds

\* The requests one call of translateText may make.
AttemptBudget == apiKeys * AttemptsPerKey

\* The record pushed last.
LastPushed == translatedHadiths[Len(translatedHadiths)]

\* A request either leaves the call waiting for its next one or ends it;
\* the failure that uses up the budget ends it with the text it was given,
\* and the driver goes on with the content, or with the write of the record.
RetryOrReturn ==
  /\ RequestStep =>
       \/ tpc' = tpc /\ attempt' = attempt + 1 /\ FailedStep
       \/ tpc = "title" /\ tpc' = "content"
       \/ tpc = "content" /\ tpc' = "save"
  /\ (FailedStep /\ attempt + 1 = AttemptBudget) =>
       /\ tpc = "title" => tpc' = "content" /\ translatedTitle' = Hadith.title
       /\ tpc = "content" =>
            /\ tpc' = "save"
            /\ LastPushed'.id = Hadith.id
            /\ LastPushed'.content_fa = Trim(Hadith.content)

\* C11: a call of translateText makes at most apiKeys.length * 3 requests,
\* however they fail; when the last of them fails it returns the text it was
\* given, and the driver goes on with the next text.
C11_BoundedRetry ==
  /\ []((tpc \in { "title", "content" }) => attempt < AttemptBudget)
  /\ [][RetryOrReturn]_vars

C11_Witness ==
  /\ tpc = "save"
  /\ apiKeys = MaxKeys
  /\ <<Hadith.id, "title">> \in exhausted
  /\ <<Hadith.id, "content">> \in exhausted
  /\ LastPushed.title_fa = Hadith.title
  /\ LastPushed.content_fa = Hadith.content

\* C12: when the answer is no, the file holds one record for each record of
\* hadiths.json, in its order, with the title and the content moved to
\* title_fa and content_fa, empty strings in their place and the other
\* fields as they were; the service is not asked anything.
C12_PassThrough ==
  doTranslate = "no" =>
    /\ file.kind = "ok"
    /\ Len(file.recs) = Len(input.recs)
    /\ \A i \in 1..Len(input.recs) :
         /\ file.recs[i].id = input.recs[i].id
         /\ file.recs[i].ghael = input.recs[i].ghael
         /\ file.recs[i].title_fa = input.recs[i].title
         /\ file.recs[i].content_fa = input.recs[i].content
         /\ file.recs[i].title = <<>>
         /\ file.recs[i].content = <<>>
    /\ requested = {}

C12_Witness ==
  /\ doTranslate = "no"
  /\ tpc = "done"
  /\ Len(file.recs) = MaxHadiths
  /\ file.recs[1].content_fa # file.recs[2].content_fa

\* An abbreviation that the replacement pass expands.
Abbreviated(t) == \E i \in 1..Len(t) : t[i] \in { "s", "e" }

AbbreviatedRecord(r) ==
  \/ Abbreviated(r.title) \/ Abbreviated(r.content) \/ Abbreviated(r.ghael)
  \/ Abbreviated(r.title_fa) \/ Abbreviated(r.content_fa)

\* The run has ended by itself.
RunEnded == tpc = "done" /\ exitCode = 0

\* The same, for the runs that translate.
TranslateRunsEndFixed ==
  (RunEnded /\ doTranslate = "yes" /\ file.kind = "ok") =>
     \A i \in 1..Len(file.recs) : ~ AbbreviatedRecord(file.recs[i])

\* C13 as stated: a run that has written hadiths_translated.json, whatever
\* the answer was, has ended with the replacement pass, and the file it
\* leaves holds no abbreviation.
C13_FixIsFinalPass ==
  (RunEnded /\ doTranslate \in { "yes", "no" } /\ file.kind = "ok") =>
     \A i \in 1..Len(file.recs) : ~ AbbreviatedRecord(file.recs[i])

\* The records that name the page of `path`.
RecordsFrom(path) ==
  { id \in DOMAIN hadithsById :
      /\ hadithsById[id].vol = Volume(path)
      /\ hadithsById[id].sec = Section(path)
      /\ Includes(hadithsById[id].pages, Page(path)) }

\* C14 as stated: a page that does not parse, or has no data array, first
\* element or paragList, gives no record and does not end the run.
C14_BadPageSkipped ==
  \A path \in DOMAIN disk :
    disk[path].kind # "list" =>
      /\ RecordsFrom(path) = {}
      /\ pc # "failed"

\* The partial results were there and could not be loaded.
LoadFailed == doTranslate = "yes" /\ file.kind = "bad"

\* C15 as stated: without a partial-results file the run starts from the
\* empty list; with one that cannot be read or parsed it translates nothing
\* and ends as a failure, with an exit code that is not zero.
C15_LoadErrorIsFatal ==
  /\ (doTranslate = "yes" /\ file.kind = "absent") => translatedHadiths = <<>>
  /\ LoadFailed => requested = {}
  /\ (LoadFailed /\ tpc = "done") => exitCode # 0

\* A failed request moves the index to the next key, round the pool; an
\* answered one leaves it, and so does every other step of the run.
Rotation ==
  /\ FailedStep => currentApiKeyIndex' = (currentApiKeyIndex + 1) % apiKeys
  /\ (RequestStep /\ lastRequest'.outcome = "ok") =>
       currentApiKeyIndex' = currentApiKeyIndex
  /\ (~ RequestStep /\ run' = run) => currentApiKeyIndex' = currentApiKeyIndex

\* C16: the index of the current key is within the pool; every failed
\* request, of either class, moves it on by one, circularly, and a success
\* leaves it, from one call of translateText to the next as well.
C16_CredentialRotation ==
  /\ [](currentApiKeyIndex \in 0..(apiKeys - 1))
  /\ [][Rotation]_vars

C16_Witness ==
  /\ tpc = "content"
  /\ attempt = 0
  /\ apiKeys = MaxKeys
  /\ lastRequest.outcome = "ok"
  /\ currentApiKeyIndex = MaxKeys - 1
  /\ wrapSeen

\* C17 as stated: the process pauses after a failed request exactly when the
\* keys have gone round once and the failure is the second retryable one in
\* a row, counted from the last success, other failure or pause.
C17_PauseAtSecondFailure ==
  lastRequest.paused <=>
    /\ wrapSeen
    /\ lastRequest.outcome = "retryable"
    /\ lastRequest.streak = 2

\* C17: the process pauses after a failed request exactly when the keys have
\* gone round once and the failure is a retryable one that has at least one
\* retryable failure right before it, counted from the last success, other
\* failure or pause: the second in a row, or a later one when the keys go
\* round only with it.
C17_PauseFromSecondFailure ==
  lastRequest.paused <=>
    /\ wrapSeen
    /\ lastRequest.outcome = "retryable"
    /\ lastRequest.streak >= 2

C17_Witness ==
  /\ lastRequest.paused
  /\ lastRequest.streak = 2
  /\ apiKeys = MaxKeys
  /\ consecutiveErrors = 0

\* The record of the file with the identity `id`.
FileRecord(id) == file.recs[CHOOSE i \in 1..Len(file.recs) : file.recs[i].id = id]

\* The text hadiths.json has for the identity and the field.
SourceText(id, field) ==
  IF field = "title" THEN input.recs[id].title ELSE input.recs[id].content

StoredText(id, field) ==
  IF field = "title" THEN FileRecord(id).title_fa ELSE FileRecord(id).content_fa

\* The write that follows a translation that ran out of attempts stores the
\* record, with the source text in the place of the translation.
FailedIsSaved ==
  (tpc = "save" /\ tpc' = "loop") =>
     \A e \in exhausted :
       e[1] = Hadith.id =>
         /\ file'.recs[Len(file'.recs)].id = e[1]
         /\ e[2] = "title" => file'.recs[Len(file'.recs)].title_fa = Hadith.title
         /\ e[2] = "content" =>
              file'.recs[Len(file'.recs)].content_fa = Hadith.content

\* C18: a record whose title or content ran out of attempts is written to
\* the file all the same, with the source text (after the final pass, with
\* its abbreviations expanded) as title_fa or content_fa; and a run that
\* finds its identity in the file asks the service nothing about it.
C18_FailedIsCheckpointed ==
  /\ [](\A e \in exhausted :
          /\ e[1] \in FileIds =>
               StoredText(e[1], e[2]) \in
                 { SourceText(e[1], e[2]), FixText(SourceText(e[1], e[2])) }
          /\ e[1] \in resumeIds => e[1] \notin requested)
  /\ [][FailedIsSaved]_vars

C18_Witness ==
  /\ run = 2
  /\ LoopEnded
  /\ doTranslate = "yes"
  /\ requested # {}
  /\ \E id \in resumeIds :
       /\ <<id, "content">> \in exhausted
       /\ id \in FileIds
       /\ FileRecord(id).content_fa = FixText(input.recs[id].content)

\* The orders in which the listing may give the paths of `l`.
ListingsOf(l) == { q \in ListsOf(Range(l), Len(l)) : Len(q) = Len(l) }

\* No two matching paths have the same volume, section and page.
UniqueTriples(l) ==
  \A i, j \in 1..Len(l) :
    (/\ Matches(l[i]) /\ Matches(l[j])
     /\ Volume(l[i]) = Volume(l[j])
     /\ Section(l[i]) = Section(l[j])
     /\ Page(l[i]) = Page(l[j])) => l[i] = l[j]

\* C19: when no two matching paths have the same volume, section and page,
\* every order of the listing gives the processing order this run has, which
\* with the pages' contents is all the output is made from.
C19_OrderIndependence ==
  (pc # "start" /\ UniqueTriples(filePaths)) =>
     \A q \in ListingsOf(filePaths) : SortPaths(q) = sortedPaths

C19_Witness ==
  /\ pc = "done"
  /\ Len(filePaths) = MaxFiles
  /\ Len(sortedPaths) = MaxFiles
  /\ filePaths # sortedPaths
  /\ output # NoOutput
  /\ Len(output) = 1
  /\ Len(output[1].pages) = 2

\* The second pass leaves the title context alone.
FallbackKeepsTitle == pc = "fallback" => currentTitle' = currentTitle

\* C20 as stated: every record the second pass creates has as its title the
\* text of the last heading element of the corpus, or 'Untitled' when there
\* was none.
C20_FallbackTitleIsLastHeading ==
  \A id \in FallbackIds : hadithsById[id].title = prevHead

\* C20: the second pass never changes the title context, and every record
\* it creates has the title the first pass ended with, wherever the record's
\* paragraph is: the heading text (the texts of the heading elements taken
\* together, trimmed) of the last fragment whose heading text is not empty,
\* or 'Untitled'.
C20_FallbackTitles ==
  /\ [](\A id \in FallbackIds : hadithsById[id].title = fragHead)
  /\ []((pc = "fallback") => currentTitle = fragHead)
  /\ [][FallbackKeepsTitle]_vars

C20_Witness ==
  /\ pc = "done"
  /\ Len(processed) >= 2
  /\ \E id \in FallbackIds :
       /\ hadithsById[id].title # Untitled
       /\ hadithsById[id].vol = Volume(sortedPaths[1])
       /\ hadithsById[id].pages = <<Page(sortedPaths[1])>>

====
